---- MODULE Spec2Model ----
(***************************************************************************)
(* Model of SCGM/stats.py: bootstrap_profiles, build_similarity_matrix,    *)
(* is_diagonal_matrix and build_consensus_matrix.                          *)
(*                                                                         *)
(* Numbers.  The float64 values of the program are modelled in fixed       *)
(* point: the integer v stands for the real v / One.  Means and quantiles  *)
(* of the values the model produces are exact in this representation; a    *)
(* square root is rounded down to the next multiple of 1 / One.  float64   *)
(* rounding itself is not modelled.                                        *)
(*                                                                         *)
(* Indices are 0-based as in the source; sequences are 1-based, so the     *)
(* element k of a Python list l is l[k + 1].                               *)
(***************************************************************************)
EXTENDS Integers, Sequences, FiniteSets, TLC

VARIABLES
    pc,               \* position of the running function
    err,              \* exception raised by the call, "none" while there is none
    heap,             \* profile objects: heap[id] is the content of object id
    heap0,            \* the profile objects as the caller handed them in
    profs,            \* bootstrap_profiles: argument 'profiles' (list of object ids)
    repetitions,      \* bootstrap_profiles: argument 'repetitions'
    boot_shared,      \* bootstrap_profiles: local list boot_shared
    boot_result,      \* bootstrap_profiles: returned tuple
    rng,              \* state of numpy.random behind the default randfunc
    profiles,         \* build_similarity_matrix: argument 'profiles' (key -> list of ids)
    key_order,        \* build_similarity_matrix: argument 'key_order'
    sim_mat,          \* build_similarity_matrix: local/returned sim_mat
    group_profiles,   \* build_similarity_matrix: local/returned group_profiles (key -> id)
    i,                \* outer loop index
    j,                \* inner loop index
    matrix,           \* is_diagonal_matrix: argument 'matrix'
    ret,              \* is_diagonal_matrix: returned value
    flipped,          \* test scenario: the cell that was flipped, <<>> before
    matrix_list,      \* build_consensus_matrix: argument 'matrix_list'
    consensus_matrix  \* build_consensus_matrix: local/returned consensus_matrix

vars == <<pc, err, heap, heap0, profs, repetitions, boot_shared, boot_result, rng,
          profiles, key_order, sim_mat, group_profiles, i, j, matrix, ret,
          flipped, matrix_list, consensus_matrix>>

----------------------------------------------------------------------------
(* Bounds of the model *)

MaxLen == 2         \* longest profile list of one key
MaxKeys == 2        \* longest key_order
MaxReps == 2        \* largest 'repetitions' (the source's default, 1000, is cut to this)
MaxSize == 2        \* largest matrix handed to is_diagonal_matrix / build_consensus_matrix
MaxMats == 2        \* longest matrix_list

(* Program constants *)

AlphaPct == 5       \* alpha = 0.05, in hundredths
Z196 == 196         \* 1.96, in hundredths

----------------------------------------------------------------------------
(* Fixed point arithmetic *)

Scale == 2                  \* a normalized profile sums to Scale abundance units
One == Scale * 120          \* the fixed point representation of 1.0
NaN == 0 - One              \* numpy's nan (mean/std of an empty array)

RECURSIVE SumSeq(_)
SumSeq(s) == IF s = <<>> THEN 0 ELSE Head(s) + SumSeq(Tail(s))

RECURSIVE SqrtSearch(_, _, _)
SqrtSearch(x, lo, hi) ==
    IF lo = hi THEN lo
    ELSE LET mid == (lo + hi + 1) \div 2
         IN  IF mid * mid <= x THEN SqrtSearch(x, mid, hi)
             ELSE SqrtSearch(x, lo, mid - 1)

\* floor of the square root of the natural number x (46340^2 < 2^31 <= 46341^2)
Isqrt(x) == SqrtSearch(x, 0, IF x < 46340 THEN x ELSE 46340)

\* numpy.sqrt on a fixed point number
sqrt(x) == Isqrt(x * One)

\* numpy.mean of a non-empty list; nan for an empty one
mean(values) ==
    IF values = <<>> THEN NaN ELSE SumSeq(values) \div Len(values)

\* numpy.std (population standard deviation): sqrt(mean(|x - mean(x)|^2))
\*   = sqrt(n * sum(x^2) - sum(x)^2) / n
std(values) ==
    IF values = <<>> THEN NaN
    ELSE LET n == Len(values)
             sq == [k \in 1..n |-> values[k] * values[k]]
             s == SumSeq(values)
         IN  Isqrt(n * SumSeq(sq) - s * s) \div n

RECURSIVE Insert(_, _)
Insert(x, s) ==
    IF s = <<>> THEN <<x>>
    ELSE IF x <= Head(s) THEN <<x>> \o s
    ELSE <<Head(s)>> \o Insert(x, Tail(s))

RECURSIVE sorted(_)
sorted(s) == IF s = <<>> THEN <<>> ELSE Insert(Head(s), sorted(Tail(s)))

\* qiime.stats._quantile on sorted data, for the probability pct200 / 200:
\* index = q * (len - 1), linear interpolation between floor and ceil
quantile1(data, pct200) ==
    LET num == pct200 * (Len(data) - 1)
        bottom == num \div 200
        r == num % 200
        top == IF r = 0 THEN bottom ELSE bottom + 1
    IN  ((200 - r) * data[bottom + 1] + r * data[top + 1]) \div 200

\* qiime.stats.quantile(samples, [alpha/2, 1 - alpha/2]) on a non-empty list
quantile(samples) ==
    LET data == sorted(samples)
    IN  <<quantile1(data, AlphaPct), quantile1(data, 200 - AlphaPct)>>

----------------------------------------------------------------------------
(* Profiles (SCGM.profile) *)

Taxa == {1, 2}

Total(p) == p[1] + p[2]

\* the profile contents the callers hand in: raw counts of one taxon (not yet
\* on the common basis), all abundance on the other taxon, an even split
RawProfiles == {[t \in Taxa |-> IF t = 1 THEN 1 ELSE 0],
                [t \in Taxa |-> IF t = 2 THEN Scale ELSE 0],
                [t \in Taxa |-> Scale \div 2]}

\* one profile brought to the common basis
Normalized(p) == [t \in Taxa |-> (p[t] * Scale) \div Total(p)]

\* normalize_profiles(profiles): in place, every object of the list
normalize_profiles(h, ids) ==
    [id \in DOMAIN h |->
        IF \E k \in 1..Len(ids) : ids[k] = id THEN Normalized(h[id]) ELSE h[id]]

Min(a, b) == IF a <= b THEN a ELSE b

RECURSIVE MinOver(_, _)
MinOver(plist, t) ==
    IF Len(plist) = 1 THEN plist[1][t]
    ELSE Min(plist[1][t], MinOver(Tail(plist), t))

\* compare_profiles(profiles): the abundance every profile of the list has
\* in common, and the fraction 'not_shared' that is left (fixed point)
compare_profiles(plist) ==
    LET common == [t \in Taxa |-> MinOver(plist, t)]
    IN  [taxa |-> common,
         not_shared |-> One - (Total(common) * One) \div Scale]

\* the list of profile contents behind a list of object ids
Deref(h, ids) == [k \in 1..Len(ids) |-> h[ids[k]]]

----------------------------------------------------------------------------
(* Idle values of the variables a function does not use *)

NoResult == <<>>
NoMatrix == <<>>

BootIdle ==
    /\ profs = <<>> /\ repetitions = 0 /\ boot_shared = <<>> /\ boot_result = NoResult
SimIdle ==
    /\ rng = 0 /\ profiles = <<>> /\ key_order = <<>> /\ sim_mat = NoMatrix
    /\ group_profiles = <<>>
DiagIdle ==
    /\ matrix = NoMatrix /\ ret = FALSE /\ flipped = <<>>
ConsIdle ==
    /\ matrix_list = <<>> /\ consensus_matrix = NoMatrix

----------------------------------------------------------------------------
(* bootstrap_profiles(profiles, alpha, repetitions, randfunc)               *)

\* the amount shared of one comparison
Shared(profile) == One - profile.not_shared

\* line 39: the resample drawn with the indices draw[1..length], each a value
\* randfunc(0, length) returned
Resample(plist, draw) == [k \in 1..Len(plist) |-> plist[draw[k] + 1]]

\* lines 54-56: the returned tuple
BootReturnSampleMean(plist, bs, ci) ==
    <<compare_profiles(plist), mean(bs), std(bs), ci>>

BootReturn(plist, bs, ci) ==
    LET profile == compare_profiles(plist)
    IN  <<profile, One - profile.not_shared, std(bs), ci>>

InitBoot ==
    /\ \E n \in 1..MaxLen :
         /\ heap \in [1..n -> RawProfiles]
         /\ heap0 = heap
         /\ profs = [k \in 1..n |-> k]
    /\ repetitions \in 0..MaxReps
    /\ boot_shared = <<>>
    /\ boot_result = NoResult
    /\ pc = "boot_normalize"
    /\ err = "none"
    /\ i = 0 /\ j = 0
    /\ SimIdle /\ DiagIdle /\ ConsIdle

\* lines 33-36
BootNormalize ==
    /\ pc = "boot_normalize"
    /\ heap' = normalize_profiles(heap, profs)
    /\ boot_shared' = <<>>
    /\ i' = 0
    /\ pc' = "boot_loop"
    /\ UNCHANGED <<err, heap0, profs, repetitions, boot_result, rng, profiles, key_order,
                   sim_mat, group_profiles, j, matrix, ret, flipped, matrix_list,
                   consensus_matrix>>

\* lines 37-44: one iteration; randfunc is any function into [0, length)
BootIter ==
    /\ pc = "boot_loop"
    /\ i < repetitions
    /\ \E draw \in [1..Len(profs) -> 0..(Len(profs) - 1)] :
         LET profile == compare_profiles(Resample(Deref(heap, profs), draw))
         IN  boot_shared' = Append(boot_shared, Shared(profile))
    /\ i' = i + 1
    /\ UNCHANGED <<pc, err, heap, heap0, profs, repetitions, boot_result, rng, profiles,
                   key_order, sim_mat, group_profiles, j, matrix, ret, flipped,
                   matrix_list, consensus_matrix>>

\* lines 46-56 with a non-empty bootstrap distribution
BootFinish ==
    /\ pc = "boot_loop"
    /\ i = repetitions
    /\ boot_shared # <<>>
    /\ boot_result' = BootReturn(Deref(heap, profs), boot_shared, quantile(boot_shared))
    /\ pc' = "done"
    /\ UNCHANGED <<err, heap, heap0, profs, repetitions, boot_shared, rng, profiles,
                   key_order, sim_mat, group_profiles, i, j, matrix, ret, flipped,
                   matrix_list, consensus_matrix>>

\* lines 46-56 with repetitions = 0: mean and std of the empty array are nan
\* (a warning, no exception); quantile of the empty array is the
\* collaborator's: it raises on indexing the empty array, or hands back nan
BootFinishEmpty ==
    /\ pc = "boot_loop"
    /\ i = repetitions
    /\ boot_shared = <<>>
    /\ \/ /\ err' = "IndexError"
          /\ UNCHANGED boot_result
       \/ /\ boot_result' = BootReturn(Deref(heap, profs), boot_shared, <<NaN, NaN>>)
          /\ UNCHANGED err
    /\ pc' = "done"
    /\ UNCHANGED <<heap, heap0, profs, repetitions, boot_shared, rng, profiles,
                   key_order, sim_mat, group_profiles, i, j, matrix, ret, flipped,
                   matrix_list, consensus_matrix>>

NextBoot == BootNormalize \/ BootIter \/ BootFinish \/ BootFinishEmpty

SpecBoot == InitBoot /\ [][NextBoot]_vars

----------------------------------------------------------------------------
(* build_similarity_matrix(profiles, key_order)                             *)

\* numpy.random behind the default randfunc=randint: a generator with a
\* state, advanced by every call
NextRng(r) == (3 * r + 1) % 7

\* the generator states of the next n calls, in order
RECURSIVE RngStream(_, _)
RngStream(r, n) == IF n = 0 THEN <<>> ELSE <<r>> \o RngStream(NextRng(r), n - 1)

\* randint(0, length) in generator state r
randint(r, length) == r % length

\* lines 81 and 91-92: bootstrap_profiles(profs) with the default arguments,
\* run to its end on heap h in generator state r
bootstrap_profiles(h, ids, r) ==
    LET length == Len(ids)
        h2 == normalize_profiles(h, ids)
        plist == Deref(h2, ids)
        stream == RngStream(r, MaxReps * length + 1)
        draw(t) == [k \in 1..length |->
                       randint(stream[(t - 1) * length + k], length)]
        bs == [t \in 1..MaxReps |->
                  Shared(compare_profiles(Resample(plist, draw(t))))]
    IN  [heap |-> h2,
         rng |-> stream[MaxReps * length + 1],
         result |-> BootReturn(plist, bs, quantile(bs))]

Indices(size) == 0..(size - 1)

\* line 69 (and 116): zeros([size, size], dtype='4float64')
zeros(size) == [r \in 1..size |-> [c \in 1..size |-> <<0, 0, 0, 0>>]]

\* matrix[a, b] (also matrix[a][b]) of a numpy array kept as a list of rows
At(m, a, b) == m[a + 1][b + 1]

\* matrix[a, b] = cell
SetCell(m, a, b, cell) == [m EXCEPT ![a + 1][b + 1] = cell]

\* line 78
SingleCell == <<One, 0, One, One>>

\* a bootstrap result as a matrix cell (lines 82 and 94-95)
CellOf(result) == <<result[2], result[3], result[4][1], result[4][2]>>

\* line 94: sim_mat[i,j] = sim_mat[j,i] = cell
SetPairNoMirror(m, a, b, cell) == SetCell(m, a, b, cell)

SetPairOntoDiagonal(m, a, b, cell) ==
    SetCell(SetCell(SetCell(m, a, b, cell), b, a, cell), a, a, cell)

SetPair(m, a, b, cell) == SetCell(SetCell(m, a, b, cell), b, a, cell)

\* a dict assignment d[key] = value
DictSet(d, key, value) ==
    [k \in DOMAIN d \cup {key} |-> IF k = key THEN value ELSE d[k]]

PresentKeys == {"A", "B"}
AllKeys == PresentKeys \cup {"Z"}

InitSim ==
    /\ \E la \in 1..MaxLen, lb \in 1..MaxLen :
         /\ la + lb <= MaxLen + 2
         /\ heap \in [1..(la + lb) -> RawProfiles]
         /\ profiles = [k \in PresentKeys |->
                          IF k = "A" THEN [n \in 1..la |-> n]
                          ELSE [n \in 1..lb |-> la + n]]
    /\ heap0 = heap
    /\ \E n \in 0..MaxKeys : key_order \in [1..n -> AllKeys]
    /\ rng \in {0, 3}
    /\ sim_mat = NoMatrix
    /\ group_profiles = <<>>
    /\ pc = "sim_start"
    /\ err = "none"
    /\ i = 0 /\ j = 0
    /\ BootIdle /\ DiagIdle /\ ConsIdle

\* lines 68-73: an empty key_order skips the loop and returns at once
SimStart ==
    /\ pc = "sim_start"
    /\ sim_mat' = zeros(Len(key_order))
    /\ group_profiles' = <<>>
    /\ i' = 0
    /\ pc' = IF Len(key_order) = 0 THEN "done" ELSE "sim_diag"
    /\ UNCHANGED <<err, heap, heap0, profs, repetitions, boot_shared, boot_result,
                   rng, profiles, key_order, j, matrix, ret, flipped, matrix_list,
                   consensus_matrix>>

\* after the diagonal of row i: the inner loop, the next row, or the return
AfterDiag == IF i + 1 < Len(key_order) THEN "sim_pair" ELSE "done"

\* lines 76-83
SimDiag ==
    /\ pc = "sim_diag"
    /\ LET key == key_order[i + 1]
       IN  IF key \notin DOMAIN profiles
           THEN /\ err' = "KeyError"
                /\ pc' = "done"
                /\ UNCHANGED <<heap, rng, sim_mat, group_profiles, j>>
           ELSE IF Len(profiles[key]) = 1
           THEN /\ sim_mat' = SetCell(sim_mat, i, i, SingleCell)
                /\ group_profiles' = DictSet(group_profiles, key,
                                             [ref |-> profiles[key][1]])
                /\ j' = i + 1
                /\ pc' = AfterDiag
                /\ UNCHANGED <<err, heap, rng>>
           ELSE LET run == bootstrap_profiles(heap, profiles[key], rng)
                IN  /\ heap' = run.heap
                    /\ rng' = run.rng
                    /\ sim_mat' = SetCell(sim_mat, i, i, CellOf(run.result))
                    /\ group_profiles' = DictSet(group_profiles, key,
                                                 [val |-> run.result[1]])
                    /\ j' = i + 1
                    /\ pc' = AfterDiag
                    /\ UNCHANGED err
    /\ UNCHANGED <<heap0, profs, repetitions, boot_shared, boot_result, profiles,
                   key_order, i, matrix, ret, flipped, matrix_list,
                   consensus_matrix>>

\* lines 84-95: one pair i < j
SimPair ==
    /\ pc = "sim_pair"
    /\ IF key_order[j + 1] \notin DOMAIN profiles
       THEN /\ err' = "KeyError"
            /\ pc' = "done"
            /\ UNCHANGED <<heap, rng, sim_mat, i, j>>
       ELSE LET both == profiles[key_order[i + 1]] \o profiles[key_order[j + 1]]
                run == bootstrap_profiles(heap, both, rng)
            IN  /\ heap' = run.heap
                /\ rng' = run.rng
                /\ sim_mat' = SetPair(sim_mat, i, j, CellOf(run.result))
                /\ IF j + 1 < Len(key_order)
                   THEN /\ j' = j + 1
                        /\ UNCHANGED <<i, pc>>
                   ELSE /\ i' = i + 1
                        /\ j' = j + 1
                        /\ pc' = "sim_diag"
                /\ UNCHANGED err
    /\ UNCHANGED <<heap0, profs, repetitions, boot_shared, boot_result, profiles,
                   key_order, group_profiles, matrix, ret, flipped, matrix_list,
                   consensus_matrix>>

NextSim == SimStart \/ SimDiag \/ SimPair

SpecSim == InitSim /\ [][NextSim]_vars

\* the call returned (line 96), and did not raise
SimReturned == pc = "done" /\ err = "none"

----------------------------------------------------------------------------
(* is_diagonal_matrix(matrix)                                               *)

\* the first components (mean shared) the matrices of the model hold
CellValues == {0, One \div 2, One}

\* a cell with the first component v and no spread
Cell(v) == <<v, 0, v, v>>

\* line 106: matrix[i, i][0] == 0
DiagonalIsZero(m, a) == At(m, a, a)[1] = 0

\* line 110: matrix[i, j][0] != 0
CellIsNonzero(m, a, b) == At(m, a, b)[1] # 0

\* line 109: range(i+1, size) starts at
FirstColumnSkipsOne(a) == a + 2

FirstColumn(a) == a + 1

\* every off-diagonal first component is zero and every diagonal one is not
TrulyDiagonal(m) ==
    \A a \in Indices(Len(m)), b \in Indices(Len(m)) :
        IF a = b THEN At(m, a, b)[1] # 0 ELSE At(m, a, b)[1] = 0

InitDiag ==
    /\ \E size \in 0..MaxSize :
         \E firsts \in [(1..size) \X (1..size) -> CellValues] :
             matrix = [r \in 1..size |-> [c \in 1..size |-> Cell(firsts[<<r, c>>])]]
    /\ ret = FALSE
    /\ flipped = <<>>
    /\ pc = "diag_row"
    /\ err = "none"
    /\ i = 0 /\ j = 0
    /\ heap = <<>> /\ heap0 = <<>>
    /\ BootIdle /\ SimIdle /\ ConsIdle

\* lines 104-107 and 112: the head of the outer loop and the diagonal check
DiagRow ==
    /\ pc = "diag_row"
    /\ IF i >= Len(matrix)
       THEN /\ ret' = TRUE
            /\ pc' = "done"
            /\ UNCHANGED j
       ELSE IF DiagonalIsZero(matrix, i)
       THEN /\ ret' = FALSE
            /\ pc' = "done"
            /\ UNCHANGED j
       ELSE /\ j' = FirstColumn(i)
            /\ pc' = "diag_col"
            /\ UNCHANGED ret
    /\ UNCHANGED <<err, heap, heap0, profs, repetitions, boot_shared, boot_result,
                   rng, profiles, key_order, sim_mat, group_profiles, i, matrix,
                   flipped, matrix_list, consensus_matrix>>

\* lines 109-111: the head of the inner loop and the check of one cell
DiagCol ==
    /\ pc = "diag_col"
    /\ IF j >= Len(matrix)
       THEN /\ i' = i + 1
            /\ pc' = "diag_row"
            /\ UNCHANGED <<j, ret>>
       ELSE IF CellIsNonzero(matrix, i, j)
       THEN /\ ret' = FALSE
            /\ pc' = "done"
            /\ UNCHANGED <<i, j>>
       ELSE /\ j' = j + 1
            /\ UNCHANGED <<i, pc, ret>>
    /\ UNCHANGED <<err, heap, heap0, profs, repetitions, boot_shared, boot_result,
                   rng, profiles, key_order, sim_mat, group_profiles, matrix,
                   flipped, matrix_list, consensus_matrix>>

\* the caller of the test scenario: a matrix found diagonal gets the first
\* component of one off-diagonal cell set to a nonzero value and is tested again
Flip ==
    /\ pc = "done"
    /\ ret = TRUE
    /\ flipped = <<>>
    /\ TrulyDiagonal(matrix)
    /\ \E a \in Indices(Len(matrix)), b \in Indices(Len(matrix)) :
         /\ a # b
         /\ \E v \in CellValues \ {0} : matrix' = SetCell(matrix, a, b, Cell(v))
         /\ flipped' = <<a, b>>
    /\ i' = 0
    /\ j' = 0
    /\ ret' = FALSE
    /\ pc' = "diag_row"
    /\ UNCHANGED <<err, heap, heap0, profs, repetitions, boot_shared, boot_result,
                   rng, profiles, key_order, sim_mat, group_profiles, matrix_list,
                   consensus_matrix>>

NextDiag == DiagRow \/ DiagCol \/ Flip

SpecDiag == InitDiag /\ [][NextDiag]_vars

----------------------------------------------------------------------------
(* build_consensus_matrix(matrix_list)                                      *)

\* a square matrix with d on the diagonal and o everywhere else
Uniform(size, d, o) ==
    [r \in 1..size |-> [c \in 1..size |-> Cell(IF r = c THEN d ELSE o)]]

InputMatrices ==
    {Uniform(size, d, o) : size \in 0..MaxSize, d \in CellValues, o \in CellValues}

\* line 120: [mat[i][j][0] for mat in matrix_list]
ValuesListOfStdev(mlist, a, b) == [k \in 1..Len(mlist) |-> At(mlist[k], a, b)[2]]

ValuesList(mlist, a, b) == [k \in 1..Len(mlist) |-> At(mlist[k], a, b)[1]]

\* lines 121-124 (and the tuple of 125-126)
ConsensusCell(values_list, n) ==
    LET cons_mean == mean(values_list)
        cons_stdev == std(values_list)
        half == (Z196 * ((cons_stdev * One) \div sqrt(n * One))) \div 100
    IN  <<cons_mean, cons_stdev, cons_mean - half, cons_mean + half>>

InitCons ==
    /\ \E n \in 0..MaxMats : matrix_list \in [1..n -> InputMatrices]
    /\ consensus_matrix = NoMatrix
    /\ pc = "cons_start"
    /\ err = "none"
    /\ i = 0 /\ j = 0
    /\ heap = <<>> /\ heap0 = <<>>
    /\ BootIdle /\ SimIdle /\ DiagIdle

\* lines 115-117: matrix_list[0] of an empty list raises
ConsStart ==
    /\ pc = "cons_start"
    /\ IF Len(matrix_list) = 0
       THEN /\ err' = "IndexError"
            /\ pc' = "done"
            /\ UNCHANGED consensus_matrix
       ELSE /\ consensus_matrix' = zeros(Len(matrix_list[1]))
            /\ pc' = IF Len(matrix_list[1]) = 0 THEN "done" ELSE "cons_cell"
            /\ UNCHANGED err
    /\ i' = 0
    /\ j' = 0
    /\ UNCHANGED <<heap, heap0, profs, repetitions, boot_shared, boot_result, rng,
                   profiles, key_order, sim_mat, group_profiles, matrix, ret,
                   flipped, matrix_list>>

\* lines 119-126: one cell i <= j; indexing a matrix smaller than the first raises
ConsCell ==
    /\ pc = "cons_cell"
    /\ LET size == Len(matrix_list[1])
       IN  IF \E k \in 1..Len(matrix_list) :
                 i >= Len(matrix_list[k]) \/ j >= Len(matrix_list[k])
           THEN /\ err' = "IndexError"
                /\ pc' = "done"
                /\ UNCHANGED <<consensus_matrix, i, j>>
           ELSE /\ consensus_matrix' =
                      SetPair(consensus_matrix, i, j,
                              ConsensusCell(ValuesList(matrix_list, i, j),
                                            Len(matrix_list)))
                /\ IF j + 1 < size
                   THEN /\ j' = j + 1
                        /\ UNCHANGED <<i, pc>>
                   ELSE /\ i' = i + 1
                        /\ j' = i + 1
                        /\ pc' = IF i + 1 < size THEN "cons_cell" ELSE "done"
                /\ UNCHANGED err
    /\ UNCHANGED <<heap, heap0, profs, repetitions, boot_shared, boot_result, rng,
                   profiles, key_order, sim_mat, group_profiles, matrix, ret,
                   flipped, matrix_list>>

NextCons == ConsStart \/ ConsCell

SpecCons == InitCons /\ [][NextCons]_vars

----------------------------------------------------------------------------
(* Properties of bootstrap_profiles (checked under SpecBoot) *)

BootReturned == pc = "done" /\ err = "none"

C10_ZeroRepetitionsFails ==
    (pc = "done" /\ repetitions = 0) =>
        (err = "InsufficientDataError" /\ boot_result = NoResult)

----------------------------------------------------------------------------
(* Properties of build_similarity_matrix (checked under SpecSim) *)

\* the key at index a of key_order has exactly one profile
SingleAt(a) == Len(profiles[key_order[a + 1]]) = 1

\* C1: the returned matrix has one row and one column per key of key_order
\* and is symmetric in all four components of its cells.
C1_SymmetricOfSize ==
    SimReturned =>
        LET idx == Indices(Len(key_order))
        IN  /\ Len(sim_mat) = Len(key_order)
            /\ \A a \in idx : Len(sim_mat[a + 1]) = Len(key_order)
            /\ \A a \in idx, b \in idx : At(sim_mat, a, b) = At(sim_mat, b, a)

\* a returned matrix of two or more keys with a pairwise cell that is not zero
C1_Witness ==
    /\ SimReturned
    /\ Len(key_order) >= 2
    /\ At(sim_mat, 1, 0)[1] > 0
    /\ At(sim_mat, 1, 0)[2] > 0

\* C4: every key with exactly one profile has the diagonal cell
\* (1.0, 0.0, 1.0, 1.0) in the returned matrix.
C4_SingleProfileDiagonal ==
    SimReturned =>
        \A a \in Indices(Len(key_order)) :
            SingleAt(a) => At(sim_mat, a, a) = <<One, 0, One, One>>

\* a single-profile key next to pairwise runs that returned something else
C4_Witness ==
    /\ SimReturned
    /\ Len(key_order) >= 2
    /\ \E a \in Indices(Len(key_order)), b \in Indices(Len(key_order)) :
         /\ a # b
         /\ SingleAt(a)
         /\ At(sim_mat, a, b) # <<One, 0, One, One>>

\* C5: the representative of a single-profile key is that profile as the
\* caller handed it in: not normalized by the time the call returns.
C5_SingleProfileUnchanged ==
    SimReturned =>
        \A a \in Indices(Len(key_order)) :
            SingleAt(a) =>
                LET key == key_order[a + 1]
                    id == profiles[key][1]
                IN  /\ group_profiles[key] = [ref |-> id]
                    /\ heap[id] = heap0[id]

\* C9: a call with an empty key_order fails (EmptyKeyOrderError), and so does
\* a call with a key of key_order that the mapping lacks (MissingKeyError);
\* neither returns a matrix and a map.  The exception class is left open here:
\* the call must end in an exception.
C9_BadKeyOrderFails ==
    pc = "done" =>
        /\ Len(key_order) = 0 => err # "none"
        /\ (\E k \in 1..Len(key_order) : key_order[k] \notin DOMAIN profiles)
               => err # "none"

----------------------------------------------------------------------------
(* Properties of is_diagonal_matrix (checked under SpecDiag) *)

C3_FlipMakesFalse ==
    (pc = "done" /\ flipped # <<>>) => ret = FALSE

----------------------------------------------------------------------------
(* Properties of build_consensus_matrix (checked under SpecCons) *)

ConsReturned == pc = "done" /\ err = "none"

C8_BadListFails ==
    pc = "done" =>
        /\ Len(matrix_list) = 0 => err # "none"
        /\ (\E k \in 1..Len(matrix_list) : Len(matrix_list[k]) # Len(matrix_list[1]))
               => err # "none"

====
